---- MODULE Spec2Model ----
(***************************************************************************)
(* Model of src/Surf/src/components/WeatherSearch.jsx: the WeatherSearch   *)
(* component's four state hooks, the async handleSearch flow (geocode      *)
(* request, then weather request), the key-press handler, and the two pure *)
(* presentation mappers getWeatherDescription and getWindDirection.        *)
(*                                                                         *)
(* A string is a sequence of one-character strings.  Every await of        *)
(* handleSearch is a suspension point: the code between two awaits is one  *)
(* atomic step of the single JavaScript thread.                            *)
(***************************************************************************)
EXTENDS Integers, Sequences, FiniteSets, TLC

VARIABLES
    searchQuery,   \* useState('')     line 4
    weatherData,   \* useState(null)   line 5
    loading,       \* useState(false)  line 6
    error,         \* useState(null)   line 7
    runs,          \* the handleSearch invocations suspended at an await
    dataRun,       \* history of the invocation that made the present weatherData
    overlapped,    \* history: two invocations were in flight together since the last idle state
    ev,            \* history: the last event handled and what it did
    code, description,      \* input and result of getWeatherDescription
    halfDegrees, direction  \* input (in half degrees) and result of getWindDirection

vars == <<searchQuery, weatherData, loading, error, runs, dataRun, overlapped, ev,
          code, description, halfDegrees, direction>>

mapperVars == <<code, description, halfDegrees, direction>>

(***************************************************************************)
(* Bounds                                                                  *)
(***************************************************************************)
MaxInFlight == 2   \* handleSearch invocations suspended at the same time
CodePad == 10      \* weather codes tried below 0 and above 99
MaxHalfDeg == 720  \* bearings tried: 0 .. MaxHalfDeg half degrees

(***************************************************************************)
(* Values                                                                  *)
(***************************************************************************)
Whitespace == {" ", "\t", "\n"}

\* What the user types into the input: nothing, whitespace only, a name, and a
\* name with whitespace around it.
Queries == { <<>>, <<" ">>, <<"\t", " ">>, <<"a">>, <<" ", "a", " ">> }

NullData == [null |-> TRUE]
NullError == "null"
EmptyQuery == "Please enter a location"
LocationNotFound == "Location not found. Please try a different search term."
WeatherFetchFailed == "Failed to fetch weather data. Please try again."
GenericFetchError == "An error occurred while fetching data. Please try again."

Undefined == "undefined"

\* Entries of a geocode response's results list.
Tokyo == [name |-> "Tokyo", country |-> "Japan", admin1 |-> "Tokyo",
          latitude |-> 3568, longitude |-> 13969]
Nauru == [name |-> "Nauru", country |-> "Nauru", admin1 |-> Undefined,
          latitude |-> -53, longitude |-> 16692]

\* What `await fetch(geocodeUrl)` followed by `await geocodeResponse.json()` can give:
\* a thrown fault, or a body whose `results` is absent, empty or a list of matches.
GeocodeOutcomes ==
    { [fault |-> TRUE,  hasResults |-> FALSE, results |-> <<>>],
      [fault |-> FALSE, hasResults |-> FALSE, results |-> <<>>],
      [fault |-> FALSE, hasResults |-> TRUE,  results |-> <<>>],
      [fault |-> FALSE, hasResults |-> TRUE,  results |-> <<Tokyo>>],
      [fault |-> FALSE, hasResults |-> TRUE,  results |-> <<Nauru, Tokyo>>] }

Mild  == [temperature_2m |-> 20, relative_humidity_2m |-> 55, weather_code |-> 1,
          wind_speed_10m |-> 10, wind_direction_10m |-> 90]
Storm == [temperature_2m |-> 28, relative_humidity_2m |-> 90, weather_code |-> 95,
          wind_speed_10m |-> 40, wind_direction_10m |-> 359]
Units == [temperature_2m |-> "C", wind_speed_10m |-> "km/h"]
NoUnits == [none |-> TRUE]     \* the {} of line 57

\* What the weather fetch and its .json() can give: a thrown fault, a body with
\* an `error` flag, or a body with `current` and possibly `current_units`.
WeatherOutcomes ==
    { [fault |-> TRUE,  error |-> FALSE, current |-> Mild,  hasUnits |-> FALSE],
      [fault |-> FALSE, error |-> TRUE,  current |-> Mild,  hasUnits |-> FALSE],
      [fault |-> FALSE, error |-> FALSE, current |-> Mild,  hasUnits |-> TRUE],
      [fault |-> FALSE, error |-> FALSE, current |-> Storm, hasUnits |-> FALSE] }

NoResponse == [none |-> TRUE]
NoLocation == [none |-> TRUE]

(***************************************************************************)
(* String helpers of handleSearch                                          *)
(***************************************************************************)
RECURSIVE TrimStart(_)
TrimStart(s) ==
    IF s # <<>> /\ Head(s) \in Whitespace THEN TrimStart(Tail(s)) ELSE s

RECURSIVE TrimEnd(_)
TrimEnd(s) ==
    IF s # <<>> /\ s[Len(s)] \in Whitespace THEN TrimEnd(SubSeq(s, 1, Len(s) - 1)) ELSE s

\* String.prototype.trim
Trim(s) == TrimEnd(TrimStart(s))

\* encodeURIComponent on the model's alphabet: whitespace is percent-encoded.
EncodeURIComponent(s) ==
    [i \in 1..Len(s) |-> CASE s[i] = " "  -> "%20"
                            [] s[i] = "\t" -> "%09"
                            [] s[i] = "\n" -> "%0A"
                            [] OTHER       -> s[i]]

IsBlankUntrimmed(q) == q = <<>>

\* line 10: !searchQuery.trim()
IsBlank(q) == Trim(q) = <<>>

GeocodeRequest(q) ==
    [api |-> "geocode", name |-> EncodeURIComponent(q), count |-> 1]

WeatherRequest(loc) ==
    [api |-> "weather", latitude |-> loc.latitude, longitude |-> loc.longitude]

\* line 52: admin1 || ''
Admin1OrEmpty(a) == IF a = Undefined \/ a = "" THEN "" ELSE a

(***************************************************************************)
(* Suspended invocations                                                   *)
(***************************************************************************)
Slots == 1..MaxInFlight

FreeRun == [pc |-> "free", requests |-> <<>>, geocodeData |-> NoResponse,
            location |-> NoLocation]

NoRun == [requests |-> <<>>, geocodeData |-> NoResponse, weatherResult |-> NoResponse]

InFlight == {i \in Slots : runs[i].pc # "free"}

Event(op, via, issued, run, resp, done) ==
    [op |-> op, via |-> via, issued |-> issued, run |-> run, resp |-> resp, done |-> done]

UiInit ==
    /\ searchQuery = <<>>
    /\ weatherData = NullData
    /\ loading = FALSE
    /\ error = NullError
    /\ runs = [i \in Slots |-> FreeRun]
    /\ dataRun = NoRun
    /\ overlapped = FALSE
    /\ ev = Event("init", "none", <<>>, FreeRun, NoResponse, FALSE)

Init ==
    /\ UiInit
    /\ code = 0 /\ description = "" /\ halfDegrees = 0 /\ direction = ""

(***************************************************************************)
(* handleSearch, lines 9-66                                                *)
(***************************************************************************)
\* lines 10-13: the blank query is rejected before anything else is touched.
RejectBlank(via) ==
    /\ error' = EmptyQuery
    /\ ev' = Event("handleSearch", via, <<>>, FreeRun, NoResponse, TRUE)
    /\ UNCHANGED <<searchQuery, weatherData, loading, runs, dataRun, overlapped>>

\* lines 15-23: reset the three hooks, build the geocode URL, fetch, suspend.
StartRun(i, via) ==
    LET run == [pc |-> "geocode", requests |-> <<"geocode">>,
                geocodeData |-> NoResponse, location |-> NoLocation]
    IN  /\ loading' = TRUE
        /\ error' = NullError
        /\ weatherData' = NullData
        /\ dataRun' = NoRun
        /\ runs' = [runs EXCEPT ![i] = run]
        /\ overlapped' = (InFlight # {})
        /\ ev' = Event("handleSearch", via, <<GeocodeRequest(searchQuery)>>, run,
                       NoResponse, FALSE)
        /\ UNCHANGED searchQuery

HandleSearch(via) ==
    IF IsBlank(searchQuery)
    THEN RejectBlank(via)
    ELSE \E i \in Slots :
            /\ runs[i].pc = "free"
            /\ \A j \in Slots : j < i => runs[j].pc # "free"
            /\ StartRun(i, via)

CatchKeepsLoading(i, op, resp) ==
    /\ error' = GenericFetchError
    /\ runs' = [runs EXCEPT ![i] = FreeRun]
    /\ ev' = Event(op, "none", <<>>, runs[i], resp, TRUE)
    /\ UNCHANGED <<searchQuery, weatherData, loading, dataRun, overlapped>>

\* lines 61-65: the catch block.
Catch(i, op, resp) ==
    /\ error' = GenericFetchError
    /\ loading' = FALSE
    /\ runs' = [runs EXCEPT ![i] = FreeRun]
    /\ ev' = Event(op, "none", <<>>, runs[i], resp, TRUE)
    /\ UNCHANGED <<searchQuery, weatherData, dataRun, overlapped>>

GeocodeNoMatchAbsentOnly(data) == ~data.hasResults

\* line 26: !geocodeData.results || geocodeData.results.length === 0
GeocodeNoMatch(data) == ~data.hasResults \/ Len(data.results) = 0

\* lines 27-29
NotFound(i, data) ==
    /\ error' = LocationNotFound
    /\ loading' = FALSE
    /\ runs' = [runs EXCEPT ![i] = FreeRun]
    /\ ev' = Event("geocodeSettled", "none", <<>>, runs[i], data, TRUE)
    /\ UNCHANGED <<searchQuery, weatherData, dataRun, overlapped>>

\* lines 32-38: take the first match, build the weather URL, fetch, suspend.
FetchWeather(i, data) ==
    LET location == Head(data.results)
        run == [pc |-> "weather", requests |-> Append(runs[i].requests, "weather"),
                geocodeData |-> data, location |-> location]
    IN  /\ runs' = [runs EXCEPT ![i] = run]
        /\ ev' = Event("geocodeSettled", "none", <<WeatherRequest(location)>>, run,
                       data, FALSE)
        /\ UNCHANGED <<searchQuery, weatherData, loading, error, dataRun, overlapped>>

\* lines 23-38, resumed when the geocode fetch settles.  Destructuring
\* results[0] of an empty list throws a TypeError, which the catch receives.
GeocodeResponse(i, data) ==
    /\ runs[i].pc = "geocode"
    /\ IF data.fault THEN Catch(i, "geocodeSettled", data)
       ELSE IF GeocodeNoMatch(data) THEN NotFound(i, data)
       ELSE IF Len(data.results) = 0 THEN Catch(i, "geocodeSettled", data)
       ELSE FetchWeather(i, data)

WeatherFailedNever(result) == FALSE

\* line 41: weatherResult.error
WeatherFailed(result) == result.error

WeatherErrorKeepsLoading(i, result) ==
    /\ error' = WeatherFetchFailed
    /\ runs' = [runs EXCEPT ![i] = FreeRun]
    /\ ev' = Event("weatherSettled", "none", <<>>, runs[i], result, TRUE)
    /\ UNCHANGED <<searchQuery, weatherData, loading, dataRun, overlapped>>

\* lines 42-44
WeatherError(i, result) ==
    /\ error' = WeatherFetchFailed
    /\ loading' = FALSE
    /\ runs' = [runs EXCEPT ![i] = FreeRun]
    /\ ev' = Event("weatherSettled", "none", <<>>, runs[i], result, TRUE)
    /\ UNCHANGED <<searchQuery, weatherData, dataRun, overlapped>>

\* lines 48-58: the record handed to setWeatherData.
DisplayRecord(location, result) ==
    [location |-> [name |-> location.name,
                   country |-> location.country,
                   admin1 |-> Admin1OrEmpty(location.admin1),
                   latitude |-> location.latitude,
                   longitude |-> location.longitude],
     current |-> result.current,
     current_units |-> IF result.hasUnits THEN Units ELSE NoUnits]

\* lines 48-60
Success(i, result) ==
    /\ weatherData' = DisplayRecord(runs[i].location, result)
    /\ loading' = FALSE
    /\ dataRun' = [requests |-> runs[i].requests, geocodeData |-> runs[i].geocodeData,
                   weatherResult |-> result]
    /\ runs' = [runs EXCEPT ![i] = FreeRun]
    /\ ev' = Event("weatherSettled", "none", <<>>, runs[i], result, TRUE)
    /\ UNCHANGED <<searchQuery, error, overlapped>>

\* lines 38-60, resumed when the weather fetch settles.
WeatherResponse(i, result) ==
    /\ runs[i].pc = "weather"
    /\ IF result.fault THEN Catch(i, "weatherSettled", result)
       ELSE IF WeatherFailed(result) THEN WeatherError(i, result)
       ELSE Success(i, result)

(***************************************************************************)
(* Events of the rendered view                                             *)
(***************************************************************************)
\* line 129: onChange of the input
SetSearchQuery(q) ==
    /\ q # searchQuery
    /\ searchQuery' = q
    /\ ev' = Event("onChange", "none", <<>>, FreeRun, NoResponse, FALSE)
    /\ UNCHANGED <<weatherData, loading, error, runs, dataRun, overlapped>>

\* lines 134-136: the button, disabled while loading
ClickSearch ==
    /\ ~loading
    /\ HandleSearch("click")

Keys == {"Enter", "a"}

\* lines 68-72
handleKeyPress(key) ==
    IF key = "Enter"
    THEN HandleSearch("enter")
    ELSE /\ ev' = Event("keyPress", "none", <<>>, FreeRun, NoResponse, FALSE)
         /\ UNCHANGED <<searchQuery, weatherData, loading, error, runs, dataRun, overlapped>>

Edit == \E q \in Queries : SetSearchQuery(q) /\ UNCHANGED mapperVars
Click == ClickSearch /\ UNCHANGED mapperVars
KeyPress == \E key \in Keys : handleKeyPress(key) /\ UNCHANGED mapperVars
GeocodeSettles(i) == \E data \in GeocodeOutcomes : GeocodeResponse(i, data) /\ UNCHANGED mapperVars
WeatherSettles(i) == \E result \in WeatherOutcomes : WeatherResponse(i, result) /\ UNCHANGED mapperVars

Next ==
    \/ Edit
    \/ Click
    \/ KeyPress
    \/ \E i \in Slots : GeocodeSettles(i)
    \/ \E i \in Slots : WeatherSettles(i)

Spec == Init /\ [][Next]_vars

\* Every request issued eventually settles (a response or a thrown fault).
FairSpec == Spec /\ \A i \in Slots : WF_vars(GeocodeSettles(i)) /\ WF_vars(WeatherSettles(i))

(***************************************************************************)
(* getWeatherDescription, lines 74-106                                     *)
(***************************************************************************)
\* lines 75-104: the object literal; its keys are the defined properties.
weatherCodes ==
    (0 :> "Clear sky") @@ (1 :> "Mainly clear") @@ (2 :> "Partly cloudy") @@
    (3 :> "Overcast") @@ (45 :> "Foggy") @@ (48 :> "Depositing rime fog") @@
    (51 :> "Light drizzle") @@ (53 :> "Moderate drizzle") @@ (55 :> "Dense drizzle") @@
    (56 :> "Light freezing drizzle") @@ (57 :> "Dense freezing drizzle") @@
    (61 :> "Slight rain") @@ (63 :> "Moderate rain") @@ (65 :> "Heavy rain") @@
    (66 :> "Light freezing rain") @@ (67 :> "Heavy freezing rain") @@
    (71 :> "Slight snow fall") @@ (73 :> "Moderate snow fall") @@
    (75 :> "Heavy snow fall") @@ (77 :> "Snow grains") @@
    (80 :> "Slight rain showers") @@ (81 :> "Moderate rain showers") @@
    (82 :> "Violent rain showers") @@ (85 :> "Slight snow showers") @@
    (86 :> "Heavy snow showers") @@ (95 :> "Thunderstorm") @@
    (96 :> "Thunderstorm with slight hail") @@ (99 :> "Thunderstorm with heavy hail")

\* obj[key]: undefined when the object has no such property.
Property(obj, key) == IF key \in DOMAIN obj THEN obj[key] ELSE Undefined

\* a || b on strings: undefined and '' are falsy.
OrElse(a, b) == IF a = Undefined \/ a = "" THEN b ELSE a

getWeatherDescriptionFalsyCode(c) ==
    IF c = 0 THEN "Unknown" ELSE OrElse(Property(weatherCodes, c), "Unknown")

\* line 105
getWeatherDescription(c) == OrElse(Property(weatherCodes, c), "Unknown")

Codes == (0 - CodePad) .. (99 + CodePad)

InitDescription ==
    /\ UiInit
    /\ code \in Codes
    /\ description = ""
    /\ halfDegrees = 0
    /\ direction = ""

\* line 195: the render applies the mapper to the code.
Describe ==
    /\ ev.op = "init"
    /\ description' = getWeatherDescription(code)
    /\ ev' = Event("getWeatherDescription", "none", <<>>, FreeRun, NoResponse, TRUE)
    /\ UNCHANGED <<code, halfDegrees, direction>>
    /\ UNCHANGED <<searchQuery, weatherData, loading, error, runs, dataRun, overlapped>>

NextDescription == Describe

SpecDescription == InitDescription /\ [][NextDescription]_vars

(***************************************************************************)
(* getWindDirection, lines 108-111                                         *)
(***************************************************************************)
\* line 109
directions == <<"N", "NNE", "NE", "ENE", "E", "ESE", "SE", "SSE",
                "S", "SSW", "SW", "WSW", "W", "WNW", "NW", "NNW">>

MathFloor(num, den) == num \div den

\* Math.round of the rational num/den (den > 0): the nearest integer, a tie
\* going up.
MathRound(num, den) == (2 * num + den) \div (2 * den)

\* JavaScript's %: the result takes the sign of the dividend.
Remainder(a, n) == IF a >= 0 THEN a % n ELSE 0 - ((0 - a) % n)

\* array[index]: undefined outside 0 .. length-1 (the model's sequences start at 1).
ElementAt(array, index) ==
    IF index >= 0 /\ index < Len(array) THEN array[index + 1] ELSE Undefined

\* line 110, for a bearing of h half degrees: degrees / 22.5 = h / 45.
getWindDirection(h) == ElementAt(directions, Remainder(MathRound(h, 45), 16))

HalfDegrees == 0 .. MaxHalfDeg

InitWind ==
    /\ UiInit
    /\ code = 0
    /\ description = ""
    /\ halfDegrees \in HalfDegrees
    /\ direction = ""

\* line 223: the render applies the mapper to the bearing.
Point ==
    /\ ev.op = "init"
    /\ direction' = getWindDirection(halfDegrees)
    /\ ev' = Event("getWindDirection", "none", <<>>, FreeRun, NoResponse, TRUE)
    /\ UNCHANGED <<code, description, halfDegrees>>
    /\ UNCHANGED <<searchQuery, weatherData, loading, error, runs, dataRun, overlapped>>

NextWind == Point

SpecWind == InitWind /\ [][NextWind]_vars

(***************************************************************************)
(* Properties                                                              *)
(***************************************************************************)
Settled == {"geocodeSettled", "weatherSettled"}

WhitespaceOnly(q) == \A k \in 1..Len(q) : q[k] \in Whitespace

\* C1: a non-null weatherData was set by an invocation that issued exactly
\* two requests, geocode then weather, whose geocode response held at least
\* one result and whose weather response carried no error flag; its location
\* and weather fields are that invocation's.  Only the step that receives
\* such a weather response ever sets weatherData.
C1_DisplayRecordFromCompleteRun ==
    /\ [](weatherData # NullData =>
            /\ dataRun.requests = <<"geocode", "weather">>
            /\ ~dataRun.geocodeData.fault
            /\ dataRun.geocodeData.hasResults
            /\ Len(dataRun.geocodeData.results) >= 1
            /\ ~dataRun.weatherResult.fault
            /\ ~dataRun.weatherResult.error
            /\ weatherData.location.name = dataRun.geocodeData.results[1].name
            /\ weatherData.location.country = dataRun.geocodeData.results[1].country
            /\ weatherData.location.latitude = dataRun.geocodeData.results[1].latitude
            /\ weatherData.location.longitude = dataRun.geocodeData.results[1].longitude
            /\ weatherData.current = dataRun.weatherResult.current)
    /\ [][(weatherData' # weatherData /\ weatherData' # NullData) =>
            /\ ev'.op = "weatherSettled"
            /\ ev'.run.requests = <<"geocode", "weather">>
            /\ Len(ev'.run.geocodeData.results) >= 1
            /\ ~ev'.resp.fault
            /\ ~ev'.resp.error]_vars

C1_Witness ==
    /\ weatherData # NullData
    /\ overlapped
    /\ InFlight # {}
    /\ Len(dataRun.geocodeData.results) = 2

\* C2: a handleSearch invocation on an empty or whitespace-only query issues
\* no request, suspends nothing and sets error to EmptyQuery, whatever the
\* state before it.
C2_BlankQueryNoRequest ==
    [][(ev'.op = "handleSearch" /\ WhitespaceOnly(searchQuery)) =>
            /\ ev'.issued = <<>>
            /\ runs' = runs
            /\ error' = EmptyQuery]_vars

C2_Witness ==
    /\ ev.op = "handleSearch"
    /\ ev.issued = <<>>
    /\ Len(searchQuery) > 0
    /\ WhitespaceOnly(searchQuery)
    /\ error = EmptyQuery
    /\ InFlight # {}

\* C3: when the geocode response has an absent or empty results list, the
\* invocation signals LocationNotFound, issues no weather request (its only
\* request is the geocode one), leaves weatherData alone and ends with
\* loading false.
C3_NoMatchStopsRun ==
    [][(/\ ev'.op = "geocodeSettled"
        /\ ~ev'.resp.fault
        /\ (~ev'.resp.hasResults \/ ev'.resp.results = <<>>)) =>
            /\ error' = LocationNotFound
            /\ ev'.issued = <<>>
            /\ ev'.run.requests = <<"geocode">>
            /\ ev'.done
            /\ \A i \in Slots : runs'[i].pc = "weather" => runs[i].pc = "weather"
            /\ weatherData' = weatherData
            /\ loading' = FALSE]_vars

C3_Witness ==
    /\ ev.op = "geocodeSettled"
    /\ ~ev.resp.fault
    /\ ev.resp.hasResults
    /\ ev.resp.results = <<>>
    /\ error = LocationNotFound
    /\ ~loading

\* C4: a weather response with an error flag makes the invocation signal
\* WeatherFetchFailed, leave weatherData alone and end with loading false;
\* a thrown fault in either call signals the generic fetch error and ends
\* with loading false.
C4_WeatherErrorAndFaults ==
    [][/\ (ev'.op = "weatherSettled" /\ ~ev'.resp.fault /\ ev'.resp.error) =>
            /\ Len(ev'.run.geocodeData.results) >= 1
            /\ error' = WeatherFetchFailed
            /\ weatherData' = weatherData
            /\ loading' = FALSE
            /\ ev'.done
       /\ (ev'.op \in Settled /\ ev'.resp.fault) =>
            /\ error' = GenericFetchError
            /\ weatherData' = weatherData
            /\ loading' = FALSE
            /\ ev'.done]_vars

C4_Witness ==
    /\ ev.op = "weatherSettled"
    /\ ~ev.resp.fault
    /\ ev.resp.error
    /\ error = WeatherFetchFailed
    /\ ~loading

\* C5: whenever error is non-null, weatherData is null: an error message
\* and a weather card are never present together.
C5_ErrorDiscardsRecord == error # NullError => weatherData = NullData

\* What an invocation that ended in the event e shows when it runs alone.
OutcomeAlone(e) ==
    IF e.op = "weatherSettled" /\ ~e.resp.fault /\ ~e.resp.error
    THEN <<NullError, DisplayRecord(e.run.location, e.resp)>>
    ELSE IF e.resp.fault THEN <<GenericFetchError, NullData>>
    ELSE IF e.op = "weatherSettled" THEN <<WeatherFetchFailed, NullData>>
    ELSE <<LocationNotFound, NullData>>

\* C6: when invocations overlapped and all have completed, error and
\* weatherData together are exactly the outcome of the invocation whose
\* final response arrived last.
C6_LastResponseWins ==
    (/\ ev.op \in Settled
     /\ ev.done
     /\ InFlight = {}
     /\ overlapped
     /\ error # EmptyQuery) =>
        <<error, weatherData>> = OutcomeAlone(ev)

\* C7 as stated: every started invocation eventually finishes, and after
\* any error a state with loading false and no invocation in flight is
\* eventually reached.
C7_AlwaysReturnsToIdle ==
    /\ \A i \in Slots : (runs[i].pc # "free") ~> (runs[i].pc = "free")
    /\ (error # NullError) ~> (~loading /\ InFlight = {})

\* C7 amended: every started invocation eventually finishes, after any
\* error a state with loading false is eventually reached, and loading is
\* false whenever no invocation is in flight.
C7_FinishesAndStopsLoading ==
    /\ \A i \in Slots : (runs[i].pc # "free") ~> (runs[i].pc = "free")
    /\ (error # NullError) ~> ~loading
    /\ [](InFlight = {} => ~loading)

C7_Witness ==
    /\ error # NullError
    /\ ~loading
    /\ InFlight # {}

MappedCodes == {0, 1, 2, 3, 45, 48, 51, 53, 55, 56, 57, 61, 63, 65, 66, 67,
                71, 73, 75, 77, 80, 81, 82, 85, 86, 95, 96, 99}

\* C8: getWeatherDescription returns a non-empty description for every
\* code: the table's label for a mapped code (Clear sky for 0) and Unknown
\* for every other one.
C8_DescriptionTotal ==
    ev.op = "getWeatherDescription" =>
        /\ description \notin {"", Undefined}
        /\ code \in MappedCodes => description = weatherCodes[code] /\ description # "Unknown"
        /\ code \notin MappedCodes => description = "Unknown"
        /\ code = 0 => description = "Clear sky"
        /\ code = 99 => description = "Thunderstorm with heavy hail"

C8_Witness ==
    /\ ev.op = "getWeatherDescription"
    /\ code = 0
    /\ description = "Clear sky"

\* C9: for a bearing of h half degrees, getWindDirection returns the entry
\* at index (k mod 16) of the 16 labels, k being h/45 rounded to the nearest
\* integer; 0 and 359 and 360 degrees give N, 22.5 degrees gives NNE.
C9_CompassLabel ==
    ev.op = "getWindDirection" =>
        /\ direction \in {directions[n] : n \in 1..16}
        /\ \E k \in 0..(halfDegrees \div 45 + 1) :
              /\ 90 * k - 45 <= 2 * halfDegrees
              /\ 2 * halfDegrees < 90 * k + 45
              /\ direction = directions[(k % 16) + 1]
        /\ halfDegrees = 0 => direction = "N"
        /\ halfDegrees = 45 => direction = "NNE"
        /\ halfDegrees = 718 => direction = "N"
        /\ halfDegrees = 720 => direction = "N"

C9_Witness ==
    /\ ev.op = "getWindDirection"
    /\ halfDegrees = 718
    /\ direction = "N"

\* C10: loading and an error are never present together.
C10_LoadingExcludesError == loading => error = NullError

====
